---- MODULE Spec2Model ----
(***************************************************************************)
(* A model of miner.py: module start-up (credential check, client          *)
(* construction), fetch_new_articles and main.                             *)
(*                                                                         *)
(* The process is single threaded; pc is its position.  The wall clock,    *)
(* the environment variable and the external NewsApiClient are the         *)
(* environment: their values are chosen nondeterministically.              *)
(*                                                                         *)
(* Strings that the program computes (the two formatted dates) are         *)
(* sequences of one-character strings, so that formatting is a real        *)
(* conversion.  Dates are (year, month, day, second-of-day, microsecond)   *)
(* records and the day arithmetic goes through proleptic Gregorian         *)
(* ordinals, as in Python's datetime, which holds years 1..9999 only:      *)
(* arithmetic that leaves that range raises OverflowError.  Python values  *)
(* whose type the program does not fix (days_back) carry their type with   *)
(* them.  datetime and timedelta keep time to the microsecond.  A float    *)
(* number of days is written as timedelta's double arithmetic sees it:     *)
(* the whole microseconds of its days and of the product of its fraction   *)
(* of a day with the microseconds of a day, and on which side of half a    *)
(* microsecond the rest of that product lies; timedelta rounds to the      *)
(* nearest microsecond, a half to the even one.                            *)
(***************************************************************************)
EXTENDS Integers, Sequences, FiniteSets, TLC

VARIABLES
    pc,          \* position of the process
    run_as_main, \* __name__ == "__main__"
    env,         \* the process environment: the value of NEWS_API_KEY
    NEWS_API_KEY,\* module global read from the environment
    newsapi,     \* module global client handle
    kwargs,      \* keyword arguments the caller passed to the running call
    args,        \* parameters of the running fetch_new_articles call
    end_date, start_date, start_date_str, end_date_str, \* its locals
    response, articles,                                 \* its locals
    client_exc,  \* the exception get_everything raised in the running call
    in_main,     \* the running call was made by main()
    requests_before, \* Len(requests) when the running call was entered
    outcome,     \* how the last fetch_new_articles call ended
    requests,    \* calls made to newsapi.get_everything, in order
    log,         \* records written to the logger, in order
    stdout,      \* values printed, in order
    uncaught,    \* the exception that ended the process, if any
    ncalls       \* number of fetch_new_articles invocations so far

vars == <<pc, run_as_main, env, NEWS_API_KEY, newsapi, kwargs, args, end_date,
          start_date, start_date_str, end_date_str, response, articles,
          client_exc, in_main, requests_before, outcome, requests, log, stdout, uncaught, ncalls>>

frame == <<kwargs, args, end_date, start_date, start_date_str, end_date_str,
           response, articles, client_exc, in_main, requests_before>>

globals == <<run_as_main, env, NEWS_API_KEY, newsapi>>

----------------------------------------------------------------------------
(* Bounds of the model.                                                    *)

\* fetch_new_articles invocations made by an importing caller
MaxCalls == 1

\* longest article list the external client returns
MaxArticles == 2

----------------------------------------------------------------------------
(* Values.                                                                 *)

\* Python's None, where a string is expected
None == "None"

\* the value of locals and globals before they are assigned
NoClient == "unset"
\* Python values: an int; a bool (an int subclass, True is 1); a str; a
\* float; nan and the two infinities.
\* timedelta(days=x) splits a float x into its whole days and its fraction
\* of a day, and multiplies the fraction by the microseconds of a day in
\* double arithmetic.  A float is written as the floor of that count of
\* microseconds, in days, seconds and microseconds, and the rest that the
\* double product leaves above the floor: "zero", "below" half a
\* microsecond, exactly "half", or "above" half.  0.5 is 0 days 43200 s,
\* -0.5 is -1 day 43200 s, -1e-12 (a product of -0.0864) is -1 day 86399 s
\* 999999 us "above", 5.003e-7/86400 (a product of 0.5003) is 0 us "above".
PyInt(n) == [py |-> "int", val |-> n]
PyBool(b) == [py |-> "bool", val |-> IF b THEN 1 ELSE 0]
PyStr(t) == [py |-> "str", val |-> t]
PyFloat(days, seconds, micros, rest) ==
    [py |-> "float", val |-> days, sec |-> seconds, usec |-> micros,
     rest |-> rest]
PyNaN == [py |-> "float", val |-> 0, sec |-> 0, usec |-> 0, rest |-> "zero",
          special |-> "nan"]
PyInf == [py |-> "float", val |-> 0, sec |-> 0, usec |-> 0, rest |-> "zero",
          special |-> "inf"]
PyNegInf == [py |-> "float", val |-> 0 - 1, sec |-> 0, usec |-> 0,
             rest |-> "zero", special |-> "-inf"]

NoArgs == [days_back |-> PyInt(0), query |-> "", sort_by |-> ""]
NoDate == [year |-> 0, month |-> 0, day |-> 0, second |-> 0,
           microsecond |-> 0]
NoStr == <<>>
NoResponse == [status |-> "unset"]
NoException == [type |-> "none", origin |-> "none"]
NoOutcome == [kind |-> "none", value |-> <<>>, exc |-> NoException]

----------------------------------------------------------------------------
(* datetime: the calendar arithmetic behind `end_date - timedelta(days)`   *)
(* and strftime("%Y-%m-%d").                                               *)

IsLeap(year) == year % 4 = 0 /\ (year % 100 # 0 \/ year % 400 = 0)

DaysBeforeYear(year) ==
    LET y == year - 1 IN y * 365 + (y \div 4) - (y \div 100) + (y \div 400)

DaysInMonthTable == <<31, 28, 31, 30, 31, 30, 31, 31, 30, 31, 30, 31>>

\* days of the year before the first day of `month` in a non-leap year
DaysBeforeMonthTable ==
    <<0, 31, 59, 90, 120, 151, 181, 212, 243, 273, 304, 334>>

DaysBeforeMonth(year, month) ==
    DaysBeforeMonthTable[month] + (IF month > 2 /\ IsLeap(year) THEN 1 ELSE 0)

\* datetime.toordinal: 0001-01-01 is day 1
Ymd2Ord(year, month, day) ==
    DaysBeforeYear(year) + DaysBeforeMonth(year, month) + day

DI400Y == DaysBeforeYear(401)
DI100Y == DaysBeforeYear(101)
DI4Y == DaysBeforeYear(5)

\* date.fromordinal
Ord2Ymd(ordinal) ==
    LET n0 == ordinal - 1
        n400 == n0 \div DI400Y
        r400 == n0 % DI400Y
        n100 == r400 \div DI100Y
        r100 == r400 % DI100Y
        n4 == r100 \div DI4Y
        r4 == r100 % DI4Y
        n1 == r4 \div 365
        n == r4 % 365
        year == n400 * 400 + 1 + n100 * 100 + n4 * 4 + n1
    IN  IF n1 = 4 \/ n100 = 4
        THEN [year |-> year - 1, month |-> 12, day |-> 31]
        ELSE LET leapyear == n1 = 3 /\ (n4 # 24 \/ n100 = 3)
                 lp == IF leapyear THEN 1 ELSE 0
                 m0 == (n + 50) \div 32
                 p0 == DaysBeforeMonthTable[m0]
                         + (IF m0 > 2 THEN lp ELSE 0)
                 month == IF p0 > n THEN m0 - 1 ELSE m0
                 preceding ==
                     IF p0 > n
                     THEN p0 - (DaysInMonthTable[month]
                                  + (IF month = 2 THEN lp ELSE 0))
                     ELSE p0
             IN  [year |-> year, month |-> month, day |-> n - preceding + 1]

\* datetime.max.toordinal(): 9999-12-31
MaxOrdinal == Ymd2Ord(9999, 12, 31)

\* largest magnitude of timedelta(days=...)
MaxDeltaDays == 999999999

IsException(v) == "type" \in DOMAIN v

RaisedIn(type) == [type |-> type, origin |-> "fetch_new_articles"]

SecondsPerDay == 86400

MicrosPerSecond == 1000000

\* the parts of a number of days below a day (none for an int or a bool)
SecondsOf(d) == IF "sec" \in DOMAIN d THEN d.sec ELSE 0

MicrosOf(d) == IF "usec" \in DOMAIN d THEN d.usec ELSE 0

\* what the double product leaves above its whole microseconds
RestOf(d) == IF "rest" \in DOMAIN d THEN d.rest ELSE "zero"

\* "nan", "inf" or "-inf" for the floats that are no number, "" otherwise
SpecialOf(d) == IF "special" \in DOMAIN d THEN d.special ELSE ""

\* round(): the microseconds of d with the rest of the double product
\* rounded to the nearest microsecond, a half to the even one
RoundedMicros(d) ==
    MicrosOf(d)
      + (IF \/ RestOf(d) = "above"
            \/ RestOf(d) = "half" /\ MicrosOf(d) % 2 = 1
         THEN 1 ELSE 0)

\* timedelta(days=d): the normalised days, seconds and microseconds, or the
\* exception raised.  int, bool and float are accepted; a float is rounded
\* to the microsecond; nan and infinity cannot be converted; the magnitude
\* is limited.
TimedeltaDays(d) ==
    IF d.py \notin {"int", "bool", "float"}
    THEN RaisedIn("TypeError")
    ELSE IF SpecialOf(d) = "nan"
    THEN RaisedIn("ValueError")
    ELSE IF SpecialOf(d) \in {"inf", "-inf"}
    THEN RaisedIn("OverflowError")
    ELSE LET us   == RoundedMicros(d)
             sec  == SecondsOf(d) + (us \div MicrosPerSecond)
             days == d.val + (sec \div SecondsPerDay)
         IN  IF days > MaxDeltaDays \/ days < 0 - MaxDeltaDays
             THEN RaisedIn("OverflowError")
             ELSE [days |-> days, seconds |-> sec % SecondsPerDay,
                   microseconds |-> us % MicrosPerSecond]

\* the datetime on day `ordinal` at `second` and `micro`, or OverflowError
\* outside 0001-01-01 .. 9999-12-31
DatetimeOnOrdinal(ordinal, second, micro) ==
    IF ordinal < 1 \/ ordinal > MaxOrdinal
    THEN RaisedIn("OverflowError")
    ELSE LET ymd == Ord2Ymd(ordinal)
         IN  [year |-> ymd.year, month |-> ymd.month, day |-> ymd.day,
              second |-> second, microsecond |-> micro]

\* slip: a negative window is clamped to zero
DatetimeMinusClamped(dt, td) ==
    LET neg  == td.days < 0
        u    == dt.microsecond - (IF neg THEN 0 ELSE td.microseconds)
        sec  == dt.second - (IF neg THEN 0 ELSE td.seconds)
                  + (u \div MicrosPerSecond)
    IN  DatetimeOnOrdinal(Ymd2Ord(dt.year, dt.month, dt.day)
                            - (IF neg THEN 0 ELSE td.days)
                            + (sec \div SecondsPerDay),
                          sec % SecondsPerDay, u % MicrosPerSecond)

\* datetime - timedelta: whole days move the date and leave the time of
\* day, a part of a day moves the time of day too and borrows a second or
\* a day when it passes one; OverflowError when the result leaves
\* datetime's range
DatetimeMinus(dt, td) ==
    LET u   == dt.microsecond - td.microseconds
        sec == dt.second - td.seconds + (u \div MicrosPerSecond)
    IN  DatetimeOnOrdinal(Ymd2Ord(dt.year, dt.month, dt.day) - td.days
                            + (sec \div SecondsPerDay),
                          sec % SecondsPerDay, u % MicrosPerSecond)

DigitChars == <<"0", "1", "2", "3", "4", "5", "6", "7", "8", "9">>

\* the decimal digits of n, zero padded to `width` characters
ZeroPad(n, width) ==
    [i \in 1..width |-> DigitChars[((n \div (10 ^ (width - i))) % 10) + 1]]

\* the decimal digits of n >= 0 with no padding
Decimal(n) ==
    ZeroPad(n, IF n < 10 THEN 1 ELSE IF n < 100 THEN 2
               ELSE IF n < 1000 THEN 3 ELSE 4)

\* dt.strftime("%Y-%m-%d"): the C library's %Y does not pad the year, so a
\* year below 1000 has fewer than four digits; %m and %d are two digits
StrftimeYmd(dt) ==
    Decimal(dt.year) \o <<"-">> \o ZeroPad(dt.month, 2) \o <<"-">>
        \o ZeroPad(dt.day, 2)

----------------------------------------------------------------------------
(* The environment: what the clock, the process environment, callers and   *)
(* the external client can produce.                                        *)

\* values of os.environ.get("NEWS_API_KEY"): unset, set but empty, set
EnvValues == {None, "", "secret-key"}

\* values of datetime.now()
ClockValues ==
    { [year |-> 2024, month |-> 3, day |-> 1, second |-> 0,
       microsecond |-> 0],
      [year |-> 2024, month |-> 12, day |-> 31, second |-> 86399,
       microsecond |-> 999999],
      [year |-> 2100, month |-> 3, day |-> 1, second |-> 43200,
       microsecond |-> 250000] }

ParamNames == {"days_back", "query", "sort_by"}

\* days_back as callers pass it: small windows, a window reaching a year
\* below 1000, windows leaving datetime's range on either side, floats
\* (whole, half a day either way, 0.5003, 0.5 and 1.5 microseconds, -1e-12
\* days, -0.5 and -0.6 microseconds, nan, the infinities), a bool, and a
\* value that is not a number
DaysBackValues ==
    { PyInt(-1), PyInt(0), PyInt(1), PyInt(366), PyInt(400000),
      PyInt(10000000), PyInt(-3000000), PyStr("7"),
      PyFloat(2, 0, 0, "zero"), PyFloat(0, 43200, 0, "zero"),
      PyFloat(0 - 1, 43200, 0, "zero"),
      PyFloat(0, 0, 0, "above"), PyFloat(0, 0, 0, "half"),
      PyFloat(0, 0, 1, "half"),
      PyFloat(0 - 1, 86399, 999999, "above"),
      PyFloat(0 - 1, 86399, 999999, "half"),
      PyFloat(0 - 1, 86399, 999999, "below"), PyNaN, PyInf, PyNegInf,
      PyBool(TRUE) }

QueryValues == {"human trafficking"}

SortByValues == {"relevancy", "newest"}

\* keyword arguments an importing caller passes to fetch_new_articles:
\* every days_back alone, and every choice of query and sort_by with
\* days_back omitted or 1
CallerKwargs ==
    { [k \in {"days_back"} |-> d] : d \in DaysBackValues }
    \cup
    { [k \in dom |-> CASE k = "days_back" -> PyInt(1)
                      [] k = "query" -> q
                      [] k = "sort_by" -> s] :
        dom \in SUBSET ParamNames, q \in QueryValues, s \in SortByValues }

Article(i) ==
    [title |-> <<"title", i>>, url |-> <<"https://example.org/", i>>]

\* article lists of a response: distinct records in both orders, and one
\* record repeated
ArticleLists ==
    UNION { { [i \in 1..n |-> Article(i)],
              [i \in 1..n |-> Article(n + 1 - i)],
              [i \in 1..n |-> Article(1)] } : n \in 0..MaxArticles }

\* the dicts newsapi.get_everything returns: with and without "articles"
Responses ==
    { [status |-> "ok", totalResults |-> Len(a), articles |-> a] :
        a \in ArticleLists }
    \cup { [status |-> "ok"] }

\* exceptions get_everything raises: the service-level one and others
ServiceExceptions == { [type |-> "NewsAPIException", origin |-> "get_everything"] }

OtherExceptions ==
    { [type |-> "ConnectionError", origin |-> "get_everything"],
      [type |-> "ValueError", origin |-> "get_everything"] }

\* exceptions the NewsApiClient constructor raises
ConstructorExceptions == { [type |-> "TypeError", origin |-> "NewsApiClient"] }

----------------------------------------------------------------------------
(* Module start-up.                                                        *)

Init ==
    /\ pc = "import"
    /\ run_as_main \in BOOLEAN
    /\ env \in EnvValues
    /\ NEWS_API_KEY = None
    /\ newsapi = NoClient
    /\ kwargs = <<>>
    /\ args = NoArgs
    /\ end_date = NoDate
    /\ start_date = NoDate
    /\ start_date_str = NoStr
    /\ end_date_str = NoStr
    /\ response = NoResponse
    /\ articles = <<>>
    /\ client_exc = NoException
    /\ in_main = FALSE
    /\ requests_before = 0
    /\ outcome = NoOutcome
    /\ requests = <<>>
    /\ log = <<>>
    /\ stdout = <<>>
    /\ uncaught = NoException
    /\ ncalls = 0

LogRecord(level, msg, data) == [level |-> level, msg |-> msg, data |-> data]

\* slip: the credential check is left out
KeyMissingUnchecked(key) == FALSE

\* `not NEWS_API_KEY`: None and the empty string are both falsy
KeyMissing(key) == key = None \/ key = ""

\* NEWS_API_KEY = os.environ.get(...); if not NEWS_API_KEY: log, raise
LoadKey ==
    /\ pc = "import"
    /\ NEWS_API_KEY' = env
    /\ IF KeyMissing(env)
       THEN /\ log' = Append(log, LogRecord("ERROR",
                         "NEWS_API_KEY environment variable is not set", <<>>))
            /\ uncaught' = [type |-> "ValueError", origin |-> "module"]
            /\ pc' = "halted"
       ELSE /\ pc' = "init_client"
            /\ UNCHANGED <<log, uncaught>>
    /\ UNCHANGED <<run_as_main, env, newsapi, frame, outcome, requests,
                   stdout, ncalls>>

\* newsapi = NewsApiClient(api_key=NEWS_API_KEY) succeeds
InitClientOk ==
    /\ pc = "init_client"
    /\ newsapi' = "client"
    /\ pc' = "ready"
    /\ UNCHANGED <<run_as_main, env, NEWS_API_KEY, frame, outcome, requests,
                   log, stdout, uncaught, ncalls>>

\* the constructor raises: except Exception: log, raise
InitClientFails ==
    /\ pc = "init_client"
    /\ \E e \in ConstructorExceptions :
         /\ log' = Append(log, LogRecord("ERROR",
                      "Failed to initialize NewsAPI client", <<e>>))
         /\ uncaught' = e
    /\ pc' = "halted"
    /\ UNCHANGED <<globals, frame, outcome, requests, stdout, ncalls>>

----------------------------------------------------------------------------
(* fetch_new_articles.                                                     *)

DefaultDaysBack == 10
DefaultQuery == "incident of human trafficking"
DefaultSortBy == "publishedAt"

\* the parameters of a call, defaults filled in for the omitted ones
BindArgs(kw) ==
    [days_back |-> IF "days_back" \in DOMAIN kw
                   THEN kw["days_back"] ELSE PyInt(DefaultDaysBack),
     query |-> IF "query" \in DOMAIN kw
               THEN kw["query"] ELSE DefaultQuery,
     sort_by |-> IF "sort_by" \in DOMAIN kw
                 THEN kw["sort_by"] ELSE DefaultSortBy]

\* slip: the two dates are passed in each other's place
GetEverythingKwargsSwapped(query, startStr, endStr, sortBy) ==
    [q |-> query, from_param |-> endStr, to |-> startStr, sort_by |-> sortBy]

\* the keyword arguments of newsapi.get_everything(...)
GetEverythingKwargs(query, startStr, endStr, sortBy) ==
    [q |-> query, from_param |-> startStr, to |-> endStr, sort_by |-> sortBy]

\* slip: the request is issued a second time
IssueRequestWithRetry(reqs, r) == Append(Append(reqs, r), r)

\* the outbound calls after one more call to get_everything
IssueRequest(reqs, r) == Append(reqs, r)

\* dict.get(key, default)
DictGet(d, key, default) == IF key \in DOMAIN d THEN d[key] ELSE default

\* slip: the list is handed back in reverse order
ExtractArticlesReversed(resp) ==
    LET a == DictGet(resp, "articles", <<>>)
    IN  [i \in 1..Len(a) |-> a[Len(a) + 1 - i]]

\* response.get("articles", [])
ExtractArticles(resp) == DictGet(resp, "articles", <<>>)

\* slip: the except clause swallows the error and returns an empty list
ReraiseSwallowed(e) == [kind |-> "return", value |-> <<>>, exc |-> NoException]

\* what a bare `raise` in an except clause hands to the caller
Reraise(e) == [kind |-> "raise", value |-> <<>>, exc |-> e]

\* `return articles`
Return(v) == [kind |-> "return", value |-> v, exc |-> NoException]

\* slip: response["articles"] in place of response.get("articles", [])
FetchResultStrict(resp) ==
    IF "articles" \in DOMAIN resp
    THEN Return(resp["articles"])
    ELSE Reraise([type |-> "KeyError", origin |-> "fetch_new_articles"])

\* how the call ends once get_everything has returned `resp`
FetchResult(resp) == Return(ExtractArticles(resp))

\* Lines 73-78: the clock value, the window and the two strings, or the
\* exception that a line raised and the locals assigned until then.
ComputeDates(now, daysBack) ==
    LET td == TimedeltaDays(daysBack)
        sd == IF IsException(td) THEN td ELSE DatetimeMinus(now, td)
    IN  IF IsException(sd)
        THEN [exc |-> sd, end_date |-> now, start_date |-> NoDate,
              start_date_str |-> NoStr, end_date_str |-> NoStr]
        ELSE [exc |-> NoException, end_date |-> now, start_date |-> sd,
              start_date_str |-> StrftimeYmd(sd),
              end_date_str |-> StrftimeYmd(now)]

\* Entry up to the call of get_everything: bind the parameters, read the
\* clock, compute and format the two dates, log, issue the request.  When
\* computing the dates raises, the second except clause logs and re-raises
\* and no request is issued.
FetchBegin(kw, fromMain) ==
    /\ pc = "ready"
    /\ kwargs' = kw
    /\ in_main' = fromMain
    /\ requests_before' = Len(requests)
    /\ \E now \in ClockValues :
         \E a \in {BindArgs(kw)} :
         \E c \in {ComputeDates(now, a.days_back)} :
             /\ args' = a
             /\ end_date' = c.end_date
             /\ start_date' = c.start_date
             /\ start_date_str' = c.start_date_str
             /\ end_date_str' = c.end_date_str
             /\ IF c.exc # NoException
                THEN /\ log' = Append(log, LogRecord("ERROR",
                              "Unexpected error while fetching articles",
                              <<c.exc>>))
                     /\ requests' = requests
                     /\ outcome' = Reraise(c.exc)
                     /\ pc' = "fetch_done"
                ELSE /\ log' = Append(log, LogRecord("INFO",
                              "Fetching articles",
                              <<c.start_date_str, c.end_date_str, a.query>>))
                     /\ requests' = IssueRequest(requests,
                            GetEverythingKwargs(a.query, c.start_date_str,
                                                c.end_date_str, a.sort_by))
                     /\ outcome' = NoOutcome
                     /\ pc' = "in_call"
    /\ response' = NoResponse
    /\ articles' = <<>>
    /\ client_exc' = NoException
    /\ ncalls' = ncalls + 1
    /\ UNCHANGED <<globals, stdout, uncaught>>

\* get_everything returns a dict: extract the list, log, return it
GetEverythingReturns ==
    /\ pc = "in_call"
    /\ \E resp \in Responses :
         /\ response' = resp
         /\ articles' = ExtractArticles(resp)
         /\ log' = Append(log, LogRecord("INFO", "Successfully fetched",
                                         <<Len(ExtractArticles(resp))>>))
         /\ outcome' = FetchResult(resp)
    /\ pc' = "fetch_done"
    /\ UNCHANGED <<globals, kwargs, client_exc, in_main, requests_before,
                   args, end_date, start_date, start_date_str, end_date_str,
                   requests, stdout, uncaught, ncalls>>

\* get_everything raises NewsAPIException: first except clause
GetEverythingRaisesService ==
    /\ pc = "in_call"
    /\ \E e \in ServiceExceptions :
         /\ log' = Append(log, LogRecord("ERROR", "NewsAPI request failed",
                                         <<e>>))
         /\ client_exc' = e
         /\ outcome' = Reraise(e)
    /\ pc' = "fetch_done"
    /\ UNCHANGED <<globals, kwargs, in_main, requests_before, args, end_date,
                   start_date, start_date_str, end_date_str, response,
                   articles, requests, stdout, uncaught, ncalls>>

\* get_everything raises another Exception: second except clause
GetEverythingRaisesOther ==
    /\ pc = "in_call"
    /\ \E e \in OtherExceptions :
         /\ log' = Append(log, LogRecord("ERROR",
                      "Unexpected error while fetching articles", <<e>>))
         /\ client_exc' = e
         /\ outcome' = Reraise(e)
    /\ pc' = "fetch_done"
    /\ UNCHANGED <<globals, kwargs, in_main, requests_before, args, end_date,
                   start_date, start_date_str, end_date_str, response,
                   articles, requests, stdout, uncaught, ncalls>>

----------------------------------------------------------------------------
(* main, and a caller that imported the module.                            *)

\* slip: main leaves the window at its default
MainKwargsDefaultWindow == [query |-> "human trafficking"]

\* fetch_new_articles(query="human trafficking", days_back=1)
MainKwargs == [query |-> "human trafficking", days_back |-> PyInt(1)]

\* main(): the call of fetch_new_articles.  main runs once when the file is
\* run as a program (line 113); an importer may call it like any function.
MainCalls ==
    /\ IF run_as_main THEN ncalls = 0 ELSE ncalls < MaxCalls
    /\ FetchBegin(MainKwargs, TRUE)

\* main(): print(articles); then the program ends, or main returns to the
\* importer that called it
MainPrints ==
    /\ in_main
    /\ pc = "fetch_done"
    /\ outcome.kind = "return"
    /\ stdout' = Append(stdout, outcome.value)
    /\ pc' = IF run_as_main THEN "exit" ELSE "ready"
    /\ UNCHANGED <<globals, frame, outcome, requests, log, uncaught, ncalls>>

\* main(): the call raised and main does not catch it; run as a program
\* nothing else does, an importer gets the exception
MainPropagates ==
    /\ in_main
    /\ pc = "fetch_done"
    /\ outcome.kind = "raise"
    /\ IF run_as_main
       THEN uncaught' = outcome.exc /\ pc' = "halted"
       ELSE uncaught' = uncaught /\ pc' = "ready"
    /\ UNCHANGED <<globals, frame, outcome, requests, log, stdout, ncalls>>

\* an importing caller calls fetch_new_articles with its own arguments
CallerCalls ==
    /\ ~run_as_main
    /\ ncalls < MaxCalls
    /\ \E kw \in CallerKwargs : FetchBegin(kw, FALSE)

\* the importing caller takes the result or catches the error
CallerResumes ==
    /\ ~in_main
    /\ pc = "fetch_done"
    /\ pc' = "ready"
    /\ UNCHANGED <<globals, frame, outcome, requests, log, stdout, uncaught,
                   ncalls>>

Next ==
    \/ LoadKey
    \/ InitClientOk
    \/ InitClientFails
    \/ MainCalls
    \/ CallerCalls
    \/ GetEverythingReturns
    \/ GetEverythingRaisesService
    \/ GetEverythingRaisesOther
    \/ MainPrints
    \/ MainPropagates
    \/ CallerResumes

Spec == Init /\ [][Next]_vars

----------------------------------------------------------------------------
(* Reading the requests back: a calendar that counts days month by month,  *)
(* and the text of a date taken apart again.  These are written without    *)
(* the ordinal arithmetic above, so that the properties below compare the  *)
(* program's result with an independent account of the calendar.           *)

LastRequest == requests[Len(requests)]

LastLog == log[Len(log)]

DateOf(dt) == [year |-> dt.year, month |-> dt.month, day |-> dt.day]

MonthLength(year, month) ==
    CASE month \in {4, 6, 9, 11} -> 30
      [] month = 2 ->
            IF (year % 400 = 0) \/ (year % 4 = 0 /\ year % 100 # 0)
            THEN 29 ELSE 28
      [] OTHER -> 31

IsValidDate(d) ==
    /\ d.year \in 1..9999
    /\ d.month \in 1..12
    /\ d.day \in 1..MonthLength(d.year, d.month)

FirstOfNextMonth(d) ==
    IF d.month < 12
    THEN [year |-> d.year, month |-> d.month + 1, day |-> 1]
    ELSE [year |-> d.year + 1, month |-> 1, day |-> 1]

RECURSIVE DaysAfter(_, _)
\* the date n days after d, n >= 0: within the month when it fits, else on
\* from the first day of the next month
DaysAfter(d, n) ==
    LET rest == MonthLength(d.year, d.month) - d.day
    IN  IF n <= rest
        THEN [d EXCEPT !.day = d.day + n]
        ELSE DaysAfter(FirstOfNextMonth(d), n - rest - 1)

DateLater(a, b) ==
    \/ a.year > b.year
    \/ a.year = b.year /\ a.month > b.month
    \/ a.year = b.year /\ a.month = b.month /\ a.day > b.day

DigitSet == {"0", "1", "2", "3", "4", "5", "6", "7", "8", "9"}

\* characters of a formatted date in code-point order
CharOrder == <<"-", "0", "1", "2", "3", "4", "5", "6", "7", "8", "9">>

CharRank(c) == CHOOSE i \in 1..Len(CharOrder) : CharOrder[i] = c

DigitValue(c) == CharRank(c) - 2

\* s has the shape YYYY-MM-DD
IsYmdString(s) ==
    /\ Len(s) = 10
    /\ s[5] = "-"
    /\ s[8] = "-"
    /\ \A i \in {1, 2, 3, 4, 6, 7, 9, 10} : s[i] \in DigitSet

ParseYmd(s) ==
    [year |-> DigitValue(s[1]) * 1000 + DigitValue(s[2]) * 100
                + DigitValue(s[3]) * 10 + DigitValue(s[4]),
     month |-> DigitValue(s[6]) * 10 + DigitValue(s[7]),
     day |-> DigitValue(s[9]) * 10 + DigitValue(s[10])]

\* a sorts after b as a string
StrLater(a, b) ==
    \E i \in 1..Len(a) :
        /\ i <= Len(b)
        /\ \A j \in 1..(i - 1) : a[j] = b[j]
        /\ CharRank(a[i]) > CharRank(b[i])

----------------------------------------------------------------------------
(* Properties.                                                             *)

\* the number of get_everything calls the running invocation has made
CallsMade == Len(requests) - requests_before

Invoked == pc \in {"in_call", "fetch_done"}

\* C1: for every integer days_back >= 0 the invocation issues a request that
\* carries two well-formed YYYY-MM-DD strings; the `to` string is the
\* clock's date, the `from` string is the date exactly days_back calendar
\* days earlier, and with days_back = 0 the two strings are equal.
\* (Stated as claimed; it fails for windows that reach a year below 1000.)
C1_WindowDates ==
    (Invoked /\ args.days_back.py = "int" /\ args.days_back.val >= 0) =>
        /\ CallsMade = 1
        /\ IsYmdString(LastRequest.to)
        /\ IsYmdString(LastRequest.from_param)
        /\ ParseYmd(LastRequest.to) = DateOf(end_date)
        /\ ParseYmd(LastRequest.from_param) = DateOf(start_date)
        /\ IsValidDate(ParseYmd(LastRequest.from_param))
        /\ DaysAfter(ParseYmd(LastRequest.from_param), args.days_back.val)
             = ParseYmd(LastRequest.to)
        /\ start_date.second = end_date.second
        /\ start_date.microsecond = end_date.microsecond
        /\ (args.days_back.val = 0
              => LastRequest.from_param = LastRequest.to)

\* C2: the request carries exactly q, from_param, to and sort_by; q and
\* sort_by are the caller's values, from_param and to are the computed start
\* and end strings in that order; an omitted sort_by is "publishedAt" and an
\* omitted days_back is a window of 10 days.
C2_RequestFields ==
    pc = "in_call" =>
        /\ DOMAIN LastRequest = {"q", "from_param", "to", "sort_by"}
        /\ ("query" \in DOMAIN kwargs => LastRequest.q = kwargs["query"])
        /\ ("sort_by" \in DOMAIN kwargs
              => LastRequest.sort_by = kwargs["sort_by"])
        /\ ("sort_by" \notin DOMAIN kwargs
              => LastRequest.sort_by = "publishedAt")
        /\ LastRequest.from_param = start_date_str
        /\ LastRequest.to = end_date_str
        /\ ParseYmd(LastRequest.to) = DateOf(end_date)
        /\ ("days_back" \notin DOMAIN kwargs =>
              DaysAfter(ParseYmd(LastRequest.from_param), 10)
                = ParseYmd(LastRequest.to))

\* C2 witness: a call with no arguments at all
C2_Witness ==
    /\ pc = "in_call"
    /\ DOMAIN kwargs = {}
    /\ LastRequest.sort_by = "publishedAt"
    /\ LastRequest.from_param # LastRequest.to

\* days_back is below zero: a negative number or minus infinity
NegativeDaysBack ==
    /\ args.days_back.py \in {"int", "bool", "float"}
    /\ \/ "special" \notin DOMAIN args.days_back
       \/ args.days_back.special = "-inf"
    /\ args.days_back.val < 0

\* days_back is a whole number of days
WholeDaysBack ==
    \/ args.days_back.py \in {"int", "bool"}
    \/ /\ "special" \notin DOMAIN args.days_back
       /\ args.days_back.sec = 0
       /\ args.days_back.usec = 0
       /\ args.days_back.rest = "zero"

\* days_back is a negative float that timedelta rounds to no microseconds:
\* its double product with the microseconds of a day is from -0.5 up to
\* zero
RoundsToNothing ==
    /\ args.days_back.py = "float"
    /\ "special" \notin DOMAIN args.days_back
    /\ args.days_back.val = 0 - 1
    /\ args.days_back.sec = 86399
    /\ args.days_back.usec = 999999
    /\ args.days_back.rest \in {"half", "above"}

\* the window has a length that timedelta can hold
WindowHeld ==
    /\ "special" \notin DOMAIN args.days_back
    /\ ~IsException(TimedeltaDays(args.days_back))

\* the day the start falls on, counted from 0001-01-01 as day 1
StartOrdinal ==
    LET td == TimedeltaDays(args.days_back)
    IN  Ymd2Ord(end_date.year, end_date.month, end_date.day) - td.days
          - (IF \/ end_date.second < td.seconds
                \/ /\ end_date.second = td.seconds
                   /\ end_date.microsecond < td.microseconds
             THEN 1 ELSE 0)

\* start_date is a later moment than end_date
StartLater ==
    \/ DateLater(DateOf(start_date), DateOf(end_date))
    \/ /\ DateOf(start_date) = DateOf(end_date)
       /\ \/ start_date.second > end_date.second
          \/ /\ start_date.second = end_date.second
             /\ start_date.microsecond > end_date.microsecond

\* C10 as claimed: every negative days_back gets its request issued, with
\* from later than to, and nothing is raised before the request.
C10_AlwaysInverted ==
    (Invoked /\ NegativeDaysBack) =>
        /\ CallsMade = 1
        /\ start_date # NoDate
        /\ DateLater(DateOf(start_date), DateOf(end_date))
        /\ StrLater(LastRequest.from_param, LastRequest.to)

\* C10, amended: the sign of days_back is never checked.  A negative
\* days_back whose start is not after the end of 9999-12-31 gets its request
\* issued and start_date is never earlier than end_date: it is later than
\* end_date, except that a float that timedelta rounds to no microseconds
\* (from -0.5 microseconds up to zero in its double arithmetic) is a window
\* of no length, with start_date equal to end_date and from equal to to.
\* For a whole number of days from is the date -days_back days after
\* to and sorts after it, for a part of a day from is the same date as to
\* or a later one.  A negative days_back whose start would be after
\* 9999-12-31, or that timedelta cannot hold (below -999999999 days, minus
\* infinity), ends in OverflowError, logged and raised, with no request.
C10_InvertedRange ==
    (Invoked /\ NegativeDaysBack) =>
        IF WindowHeld /\ StartOrdinal <= Ymd2Ord(9999, 12, 31)
        THEN /\ CallsMade = 1
             /\ pc = "in_call" => outcome = NoOutcome
             /\ IF RoundsToNothing
                THEN /\ start_date = end_date
                     /\ LastRequest.from_param = LastRequest.to
                ELSE StartLater
             /\ ParseYmd(LastRequest.from_param) = DateOf(start_date)
             /\ ParseYmd(LastRequest.to) = DateOf(end_date)
             /\ \/ StrLater(LastRequest.from_param, LastRequest.to)
                \/ LastRequest.from_param = LastRequest.to
             /\ WholeDaysBack =>
                   /\ DaysAfter(ParseYmd(LastRequest.to),
                                0 - args.days_back.val)
                        = ParseYmd(LastRequest.from_param)
                   /\ StrLater(LastRequest.from_param, LastRequest.to)
                   /\ start_date.second = end_date.second
                   /\ start_date.microsecond = end_date.microsecond
        ELSE /\ CallsMade = 0
             /\ pc = "fetch_done"
             /\ outcome = Reraise(RaisedIn("OverflowError"))
             /\ LastLog.level = "ERROR"
             /\ LastLog.data = <<RaisedIn("OverflowError")>>

\* C10 witness: days_back = -1 on 2024-12-31 asks from 2025-01-01
C10_Witness ==
    /\ pc = "in_call"
    /\ args.days_back = PyInt(-1)
    /\ LastRequest.to = <<"2", "0", "2", "4", "-", "1", "2", "-", "3", "1">>
    /\ LastRequest.from_param
         = <<"2", "0", "2", "5", "-", "0", "1", "-", "0", "1">>

\* C3: when get_everything returned a dict holding an article list, the call
\* returns that very list: same length, same records at the same positions.
C3_ListPassedThrough ==
    (pc = "fetch_done" /\ response.status = "ok"
        /\ "articles" \in DOMAIN response) =>
        /\ outcome.kind = "return"
        /\ Len(outcome.value) = Len(response["articles"])
        /\ \A i \in 1..Len(response["articles"]) :
               outcome.value[i] = response["articles"][i]
        /\ outcome.value = response["articles"]
        /\ articles = response["articles"]

\* C3 witness: a two-record list whose records are not in index order
C3_Witness ==
    /\ pc = "fetch_done"
    /\ response.status = "ok"
    /\ "articles" \in DOMAIN response
    /\ response["articles"] = <<Article(2), Article(1)>>
    /\ outcome.kind = "return"

\* C4: when the returned dict has no "articles" key the call returns the
\* empty sequence; it raises nothing, and what it logged last is the INFO
\* record of success, straight after the INFO record of the request.
C4_MissingFieldGivesEmpty ==
    (pc = "fetch_done" /\ response.status = "ok"
        /\ "articles" \notin DOMAIN response) =>
        /\ outcome.kind = "return"
        /\ outcome.value = <<>>
        /\ outcome.exc = NoException
        /\ client_exc = NoException
        /\ LastLog.level = "INFO"
        /\ LastLog.msg = "Successfully fetched"
        /\ LastLog.data = <<0>>
        /\ log[Len(log) - 1].level = "INFO"
        /\ log[Len(log) - 1].msg = "Fetching articles"

\* C4 witness: a response without the key has been handled
C4_Witness ==
    /\ pc = "fetch_done"
    /\ response = [status |-> "ok"]
    /\ outcome.kind = "return"

\* C5: when get_everything raised, the call ends by raising that same
\* exception, never by returning; the last record logged is an ERROR record
\* carrying the exception, with the message of the matching except clause.
C5_FailurePropagates ==
    client_exc # NoException =>
        /\ outcome.kind = "raise"
        /\ outcome.exc = client_exc
        /\ outcome.value = <<>>
        /\ response = NoResponse
        /\ articles = <<>>
        /\ LastLog.level = "ERROR"
        /\ LastLog.data = <<client_exc>>
        /\ LastLog.msg = (IF client_exc.type = "NewsAPIException"
                          THEN "NewsAPI request failed"
                          ELSE "Unexpected error while fetching articles")
        /\ (run_as_main /\ pc = "halted" => uncaught = client_exc)

\* C5 witness: a connection failure has been logged and raised again
C5_Witness ==
    /\ pc = "fetch_done"
    /\ client_exc.type = "ConnectionError"
    /\ outcome.kind = "raise"

\* C6 as claimed: an invocation has made exactly one call of
\* get_everything, while the call is in flight and after the invocation
\* ended, however it ended.
C6_ExactlyOneCall == Invoked => CallsMade = 1

\* C6, amended: an invocation makes at most one call of get_everything:
\* exactly one when it returns and when get_everything raised (the failed
\* call is not repeated and nothing is called in its place), none when
\* computing the dates raised before the call.
C6_OneCallPerInvocation ==
    /\ Len(requests) <= ncalls
    /\ ncalls > 0 =>
          /\ CallsMade \in {0, 1}
          /\ pc = "in_call" => CallsMade = 1
          /\ outcome.kind = "return" => CallsMade = 1
          /\ client_exc # NoException => CallsMade = 1
          /\ (outcome.kind = "raise" /\ client_exc = NoException) =>
                /\ CallsMade = 0
                /\ outcome.exc \in {RaisedIn("OverflowError"),
                                     RaisedIn("TypeError"),
                                     RaisedIn("ValueError")}
                /\ start_date = NoDate

\* C6 witness: get_everything failed and exactly one request was made
C6_Witness ==
    /\ pc = "fetch_done"
    /\ client_exc # NoException
    /\ outcome.kind = "raise"
    /\ ncalls = 1
    /\ CallsMade = 1

\* C7: with the credential unset or empty, and also once the constructor has
\* raised, the process is halted with that error, the client handle was never
\* assigned, fetch_new_articles was never invoked and no request was issued.
C7_FailFast ==
    /\ ((env = None \/ env = "") /\ pc # "import") =>
          /\ pc = "halted"
          /\ uncaught = [type |-> "ValueError", origin |-> "module"]
          /\ newsapi = NoClient
          /\ ncalls = 0
          /\ requests = <<>>
          /\ stdout = <<>>
    /\ uncaught \in ConstructorExceptions =>
          /\ pc = "halted"
          /\ newsapi = NoClient
          /\ ncalls = 0
          /\ requests = <<>>
          /\ stdout = <<>>
    /\ (ncalls > 0 \/ requests # <<>>) =>
          /\ env \notin {None, ""}
          /\ newsapi = "client"

\* C7 witness: the variable is not set and start-up has failed
C7_Witness ==
    /\ env = None
    /\ pc = "halted"
    /\ LastLog.level = "ERROR"
    /\ ncalls = 0

\* the sort modes the external API accepts
SortMethods == {"relevancy", "popularity", "publishedAt"}

\* C8: every request issued carries a sort_by among the modes the external
\* API accepts.  (Stated as claimed; fetch_new_articles does not check it.)
C8_SortByValidated ==
    \A i \in 1..Len(requests) : requests[i].sort_by \in SortMethods

\* C9: every call made by main asks for q = "human trafficking", sort_by =
\* "publishedAt" and a window of one day, in one request.  Run as a program
\* there is at most one invocation, and the program ends either having
\* printed exactly the returned list, or with the call's exception uncaught
\* and nothing printed.
C9_EntryPoint ==
    /\ (in_main /\ ncalls > 0) =>
          /\ CallsMade = 1
          /\ LastRequest.q = "human trafficking"
          /\ LastRequest.sort_by = "publishedAt"
          /\ ParseYmd(LastRequest.to) = DateOf(end_date)
          /\ DaysAfter(ParseYmd(LastRequest.from_param), 1)
               = ParseYmd(LastRequest.to)
    /\ run_as_main =>
          /\ ncalls <= 1
          /\ ncalls = 1 => in_main
          /\ pc = "exit" =>
                /\ outcome.kind = "return"
                /\ stdout = <<outcome.value>>
                /\ outcome.value = DictGet(response, "articles", <<>>)
                /\ uncaught = NoException
          /\ pc # "exit" => stdout = <<>>
          /\ (pc = "halted" /\ ncalls = 1) =>
                /\ outcome.kind = "raise"
                /\ uncaught = outcome.exc
                /\ uncaught = client_exc
                /\ uncaught # NoException
    /\ Len(stdout) <= ncalls

\* C9 witness: the program printed the two records it fetched
C9_Witness ==
    /\ run_as_main
    /\ pc = "exit"
    /\ stdout = << <<Article(2), Article(1)>> >>

====
